---- MODULE Spec2Model ----
(***************************************************************************)
(* Model of class Group01 (src/Functions/group01.py): the dataset cache    *)
(* (get_data), get_countries, plot_area_chart, choropleth and the ARIMA    *)
(* predictor.                                                              *)
(* The object's state is self.df / self.df_geographical plus the files of  *)
(* the downloads/ directory; every method is one action.                   *)
(***************************************************************************)
EXTENDS Integers, Sequences, FiniteSets, TLC

VARIABLES
    remote,           \* the CSV served at the dataset url (rows in file order)
    header,           \* the column names of that CSV
    files,            \* paths that exist on disk
    df,               \* self.df: [isNone, rows]
    df_geographical,  \* self.df_geographical: [isNone]
    call,             \* the last method call and its arguments
    outcome,          \* how that call ended: [exc, msg, listed]
    ret,              \* its return value (get_countries), else <<>>
    lines,            \* ax.get_lines() of the figure the call drew
    stack,            \* labels of the plt.stackplot the call drew
    shown,            \* plt.show() was reached by the call
    io                \* what get_data did during the call

vars ==
    <<remote, header, files, df, df_geographical, call, outcome, ret, lines,
      stack, shown, io>>

----------------------------------------------------------------------------
(* Bounds of the model *)

\* longest countries list passed to predictor
MaxNames == 4
\* observations a country has beyond the p + d the model order consumes
ExtraObs == 1
\* last year of the dataset
LastYear == 2019
\* most columns of the dataset whose name contains "_output_"
MaxOutputCols == 2

(* Program constants *)

ARIMA_p == 20
ARIMA_d == 2
ARIMA_q == 2
ForecastSteps == 31
ArangeSpan == 31
MaxCountries == 3

----------------------------------------------------------------------------
(* Class data *)

merge_dict ==
    ("Bosnia and Herzegovina" :> "Bosnia and Herz.") @@
    ("Burma" :> "Myanmar") @@
    ("Eswatini" :> "eSwatini") @@
    ("United States" :> "United States of America") @@
    ("North Macedonia" :> "Macedonia") @@
    ("Dominican Republic" :> "Dominican Rep.") @@
    ("Equatorial Guinea" :> "Eq. Guinea") @@
    ("South Sudan" :> "S. Sudan") @@
    ("Democratic Republic of Congo" :> "Dem. Rep. Congo") @@
    ("Solomon Islands" :> "Solomon Is.") @@
    ("Timor" :> "Timor-Leste") @@
    ("Central African Republic" :> "Central African Rep.") @@
    ("Macedonia" :> "North Macedonia")

aggregated_columns ==
    { "Caribbean", "Central Africa", "Central African Republic",
      "Central America", "Central Asia", "Central Europe", "Czechoslovakia",
      "Developed Asia", "Developed countries", "Former Soviet Union",
      "High income", "Horn of Africa", "Latin America and the Caribbean",
      "Least developed countries", "Low income", "Lower-middle income",
      "North Africa", "Northeast Asia", "Northern Europe", "South Asia",
      "Southeast Asia", "Southern Africa", "Southern Europe",
      "Sub-Saharan Africa", "Upper-middle income", "West Africa",
      "West Asia", "Western Europe", "World", "Yugoslavia" }

DownloadsDir == "downloads"
DataCsv == "downloads/data.csv"
GeoCsv == "downloads/data_geographical.csv"

----------------------------------------------------------------------------
(* The dataset: rows (Entity, Year, tfp), grouped by entity, years ascending *)

ObsCounts == {1, ARIMA_p + ARIMA_d, ARIMA_p + ARIMA_d + ExtraObs}

Row(e, y, v) == [Entity |-> e, Year |-> y, tfp |-> v]

\* n yearly observations of entity e ending in LastYear
EntityRows(e, n, base) ==
    [i \in 1..n |-> Row(e, LastYear - n + i, base + i * i)]

CsvFiles ==
    { EntityRows("France", a, 50) \o EntityRows("North Macedonia", 1, 70)
        \o EntityRows("United States", b, 90) \o EntityRows("World", 1, 100)
      : a \in ObsCounts, b \in ObsCounts }

\* columns every served file has; "output_quantity" holds no "_output_"
BaseColumns == <<"Entity", "Year", "tfp", "output_quantity">>
OutputColumns ==
    <<"crop_output_quantity", "animal_output_quantity", "fish_output_quantity">>
HeaderWith(k) == BaseColumns \o SubSeq(OutputColumns, 1, k)
Headers == {HeaderWith(k) : k \in 0..MaxOutputCols}

None == [isNone |-> TRUE, rows |-> <<>>]
Frame(rows) == [isNone |-> FALSE, rows |-> rows]

\* Series.unique().tolist(): distinct values in order of first appearance
RECURSIVE Unique(_)
Unique(s) ==
    IF s = <<>> THEN <<>>
    ELSE LET front == Unique(SubSeq(s, 1, Len(s) - 1))
             x == s[Len(s)]
         IN IF \E i \in DOMAIN front : front[i] = x THEN front
            ELSE Append(front, x)

Column(rows, col) == [i \in DOMAIN rows |-> rows[i][col]]
Range(s) == {s[i] : i \in DOMAIN s}

NotAggregated(r) == r.Entity \notin aggregated_columns

\* pd.read_csv("downloads/data.csv") followed by the aggregated_columns filter
read_csv(content) == Frame(SelectSeq(content, NotAggregated))

replace_entity(r) ==
    [r EXCEPT !.Entity = IF @ \in DOMAIN merge_dict THEN merge_dict[@] ELSE @]

\* DataFrame.replace({"Entity": merge_dict}): every cell is looked up once, by
\* the value it had before the call
replace(d) == Frame([i \in DOMAIN d.rows |-> replace_entity(d.rows[i])])

----------------------------------------------------------------------------
(* get_data *)

NoIo == [called |-> FALSE, downloaded |-> FALSE, read |-> FALSE, failed |-> FALSE]

\* get_data reading the file again on every call
get_data_rereads(fs, d, g, content, net) ==
    LET fs1 == fs \cup {DownloadsDir}
        cached == DataCsv \in fs
    IN IF ~cached /\ ~net
       THEN [files |-> fs1, df |-> d, geo |-> g,
             io |-> [called |-> TRUE, downloaded |-> FALSE, read |-> FALSE,
                     failed |-> TRUE]]
       ELSE [files |-> fs1 \cup {DataCsv, GeoCsv},
             df |-> read_csv(content),
             geo |-> [isNone |-> FALSE],
             io |-> [called |-> TRUE, downloaded |-> ~cached,
                     read |-> TRUE, failed |-> FALSE]]

\* The method on disk state fs, frames d and g, with `content` served at the
\* url and `net` telling whether requests.get succeeds.  It returns None in
\* every case; the record is the state it leaves.
get_data(fs, d, g, content, net) ==
    LET fs1 == fs \cup {DownloadsDir}
        cached == DataCsv \in fs
    IN IF ~cached /\ ~net
       THEN \* RequestException: print and return
            [files |-> fs1, df |-> d, geo |-> g,
             io |-> [called |-> TRUE, downloaded |-> FALSE, read |-> FALSE,
                     failed |-> TRUE]]
       ELSE [files |-> fs1 \cup {DataCsv, GeoCsv},
             df |-> IF d.isNone THEN read_csv(content) ELSE d,
             geo |-> [isNone |-> FALSE],
             io |-> [called |-> TRUE, downloaded |-> ~cached,
                     read |-> d.isNone, failed |-> FALSE]]

\* "if self.df is None: self.get_data()" as the plot methods do it
ensure_data(fs, d, g, content, net) ==
    IF d.isNone THEN get_data(fs, d, g, content, net)
    ELSE [files |-> fs, df |-> d, geo |-> g, io |-> NoIo]

----------------------------------------------------------------------------
(* Outcomes of a call *)

Returned == [exc |-> "None", msg |-> "", listed |-> {}]
Raise(exc, msg) == [exc |-> exc, msg |-> msg, listed |-> {}]

\* self.df[...] while self.df is still None
NoneSubscript == Raise("TypeError", "'NoneType' object is not subscriptable")
NotAList == Raise("TypeError", "No valid type as an argument.")
TooManyCountries == Raise("ValueError", "Maximum of three countries can be provided.")
UnknownCountries(avail) ==
    [exc |-> "ValueError", msg |-> "No valid countries provided.", listed |-> avail]
YearNotInt == Raise("TypeError", "Year must be an integer")
YearMissing == Raise("ValueError", "Year is not in the dataset")

----------------------------------------------------------------------------
(* Arguments *)

Str(v) == [isStr |-> TRUE, v |-> v]
NonStr(v) == [isStr |-> FALSE, v |-> v]

\* elements a caller may put in the countries list: names and a non-string
Elems == {Str("France"), Str("United States"), Str("Atlantis"), NonStr("7")}

RECURSIVE ListsOf(_, _)
ListsOf(S, n) ==
    IF n = 0 THEN {<<>>}
    ELSE LET shorter == ListsOf(S, n - 1)
         IN shorter \cup {Append(l, e) : l \in {x \in shorter : Len(x) = n - 1}, e \in S}

NoArgs == [isList |-> FALSE, countries |-> <<>>, isInt |-> FALSE, year |-> 0]
ListArg(l) == [NoArgs EXCEPT !.isList = TRUE, !.countries = l]
YearArg(y) == [NoArgs EXCEPT !.isInt = TRUE, !.year = y]

\* predictor's argument: a list, or something that is not a list (None, a str)
CountriesArgs == {ListArg(l) : l \in ListsOf(Elems, MaxNames)} \cup {NoArgs}
\* choropleth's argument: a year of the dataset, a year outside it, a non-int
YearArgs == {YearArg(LastYear), YearArg(LastYear + 1), NoArgs}

Call(op, a) == [op |-> op, arg |-> a]
\* no call is in progress and no result is held
Idle == Call("none", NoArgs)

----------------------------------------------------------------------------
(* predictor *)

available_countries(d) == Range(Column(d.rows, "Entity"))

RECURSIVE Reverse(_)
Reverse(s) == IF s = <<>> THEN <<>> ELSE Append(Reverse(Tail(s)), Head(s))

\* the filter losing the order of the list
countries_to_use_reversed(countries, avail) ==
    Reverse(SelectSeq(countries, LAMBDA c : c.isStr /\ c.v \in avail))

\* [country for country in countries if country in available_countries]
countries_to_use(countries, avail) ==
    SelectSeq(countries, LAMBDA c : c.isStr /\ c.v \in avail)

\* np.arange(start, stop)
arange(start, stop) == [i \in 1..(stop - start) |-> start + (i - 1)]

\* ARIMA(tfp, order=(20, 2, 2)).fit(): statsmodels fits whatever series it is
\* given (with too few observations it starts from zero parameters and warns,
\* and predictor has silenced warnings); no length check precedes it.
ARIMA_fit(tfp) == [endog |-> tfp, order |-> <<ARIMA_p, ARIMA_d, ARIMA_q>>]

\* model_fit.forecast(steps): `steps` values continuing the series.  The
\* numbers stand for the fitted model's output; the trend of the last two
\* observations is continued.
forecast(model_fit, steps) ==
    LET y == model_fit.endog
        n == Len(y)
        slope == IF n >= 2 THEN y[n] - y[n - 1] ELSE 0
    IN [h \in 1..steps |-> y[n] + h * slope]

\* colour of a line plotted without color=: the next of the axes' cycle, which
\* only such lines advance
next_color(axlines) == Cardinality({i \in DOMAIN axlines : axlines[i].auto})

\* the loop body taking the forecast's colour from the first line of the axes
plot_country_first_color(d, country, axlines) ==
    LET data == SelectSeq(d.rows, LAMBDA r : r.Entity = country)
        tfp == Column(data, "tfp")
        years == Column(data, "Year")
        hist == [x |-> years, y |-> tfp, linestyle |-> "-", auto |-> TRUE,
                 color |-> next_color(axlines),
                 label |-> [country |-> country, forecast |-> FALSE]]
        ax1 == Append(axlines, hist)
        predictions == forecast(ARIMA_fit(tfp), ForecastSteps)
        last == years[Len(years)]
        fc == [x |-> arange(last, last + ArangeSpan), y |-> predictions,
               linestyle |-> "--", auto |-> FALSE,
               color |-> ax1[1].color,
               label |-> [country |-> country, forecast |-> TRUE]]
    IN Append(ax1, fc)

\* One pass of the loop body for `country`, on axes already holding axlines
plot_country(d, country, axlines) ==
    LET data == SelectSeq(d.rows, LAMBDA r : r.Entity = country)
        tfp == Column(data, "tfp")
        years == Column(data, "Year")
        hist == [x |-> years, y |-> tfp, linestyle |-> "-", auto |-> TRUE,
                 color |-> next_color(axlines),
                 label |-> [country |-> country, forecast |-> FALSE]]
        ax1 == Append(axlines, hist)
        predictions == forecast(ARIMA_fit(tfp), ForecastSteps)
        last == years[Len(years)]
        fc == [x |-> arange(last, last + ArangeSpan), y |-> predictions,
               linestyle |-> "--", auto |-> FALSE,
               color |-> ax1[Len(ax1)].color,
               label |-> [country |-> country, forecast |-> TRUE]]
    IN Append(ax1, fc)

RECURSIVE plot_countries(_, _, _)
plot_countries(d, use, axlines) ==
    IF use = <<>> THEN axlines
    ELSE plot_countries(d, Tail(use), plot_country(d, Head(use).v, axlines))

\* the two checks in the other order
predict_limit_first(d, countries) ==
    LET avail == available_countries(d)
        use == countries_to_use(countries, avail)
    IN IF Len(countries) > MaxCountries
       THEN [outcome |-> TooManyCountries, lines |-> <<>>, shown |-> FALSE]
       ELSE IF use = <<>>
       THEN [outcome |-> UnknownCountries(avail), lines |-> <<>>, shown |-> FALSE]
       ELSE [outcome |-> Returned, lines |-> plot_countries(d, use, <<>>),
             shown |-> TRUE]

\* The method from "available_countries = ..." on, for a loaded frame d and a
\* list argument
predict(d, countries) ==
    LET avail == available_countries(d)
        use == countries_to_use(countries, avail)
    IN IF use = <<>>
       THEN [outcome |-> UnknownCountries(avail), lines |-> <<>>, shown |-> FALSE]
       ELSE IF Len(countries) > MaxCountries
       THEN [outcome |-> TooManyCountries, lines |-> <<>>, shown |-> FALSE]
       ELSE [outcome |-> Returned, lines |-> plot_countries(d, use, <<>>),
             shown |-> TRUE]

\* predictor loading the data before it looks at its argument
predictor_loads_first(fs, d, g, content, net, a) ==
    LET s == ensure_data(fs, d, g, content, net)
        r == predict(s.df, a.countries)
    IN IF ~a.isList
       THEN [files |-> s.files, df |-> s.df, geo |-> s.geo, io |-> s.io,
             outcome |-> NotAList, lines |-> <<>>, shown |-> FALSE]
       ELSE IF s.df.isNone
       THEN [files |-> s.files, df |-> s.df, geo |-> s.geo, io |-> s.io,
             outcome |-> NoneSubscript, lines |-> <<>>, shown |-> FALSE]
       ELSE [files |-> s.files, df |-> s.df, geo |-> s.geo, io |-> s.io,
             outcome |-> r.outcome, lines |-> r.lines, shown |-> r.shown]

\* predictor renaming the entities the way choropleth does
predictor_renames(fs, d, g, content, net, a) ==
    IF ~a.isList
    THEN [files |-> fs, df |-> d, geo |-> g, io |-> NoIo,
          outcome |-> NotAList, lines |-> <<>>, shown |-> FALSE]
    ELSE LET s == ensure_data(fs, d, g, content, net)
             r == predict(s.df, a.countries)
         IN IF s.df.isNone
            THEN [files |-> s.files, df |-> s.df, geo |-> s.geo, io |-> s.io,
                  outcome |-> NoneSubscript, lines |-> <<>>, shown |-> FALSE]
            ELSE [files |-> s.files, df |-> replace(s.df), geo |-> s.geo,
                  io |-> s.io,
                  outcome |-> r.outcome, lines |-> r.lines, shown |-> r.shown]

\* The whole method: the state it leaves and how it ends
predictor(fs, d, g, content, net, a) ==
    IF ~a.isList
    THEN [files |-> fs, df |-> d, geo |-> g, io |-> NoIo,
          outcome |-> NotAList, lines |-> <<>>, shown |-> FALSE]
    ELSE LET s == ensure_data(fs, d, g, content, net)
             r == predict(s.df, a.countries)
         IN IF s.df.isNone
            THEN [files |-> s.files, df |-> s.df, geo |-> s.geo, io |-> s.io,
                  outcome |-> NoneSubscript, lines |-> <<>>, shown |-> FALSE]
            ELSE [files |-> s.files, df |-> s.df, geo |-> s.geo, io |-> s.io,
                  outcome |-> r.outcome, lines |-> r.lines, shown |-> r.shown]

----------------------------------------------------------------------------
(* choropleth *)

choropleth(fs, d, g, content, net, a) ==
    IF ~a.isInt
    THEN [files |-> fs, df |-> d, geo |-> g, io |-> NoIo, outcome |-> YearNotInt,
          shown |-> FALSE]
    ELSE LET s == IF d.isNone \/ g.isNone THEN get_data(fs, d, g, content, net)
                  ELSE [files |-> fs, df |-> d, geo |-> g, io |-> NoIo]
         IN IF s.df.isNone
            THEN [files |-> s.files, df |-> s.df, geo |-> s.geo, io |-> s.io,
                  outcome |-> NoneSubscript, shown |-> FALSE]
            ELSE IF a.year \notin Range(Column(s.df.rows, "Year"))
            THEN [files |-> s.files, df |-> s.df, geo |-> s.geo, io |-> s.io,
                  outcome |-> YearMissing, shown |-> FALSE]
            ELSE [files |-> s.files, df |-> replace(s.df), geo |-> s.geo,
                  io |-> s.io, outcome |-> Returned, shown |-> TRUE]

----------------------------------------------------------------------------
(* get_countries *)

get_countries(fs, d, g, content, net) ==
    LET s == ensure_data(fs, d, g, content, net)
    IN IF s.df.isNone
       THEN [files |-> s.files, df |-> s.df, geo |-> s.geo, io |-> s.io,
             outcome |-> NoneSubscript, ret |-> <<>>]
       ELSE [files |-> s.files, df |-> s.df, geo |-> s.geo, io |-> s.io,
             outcome |-> Returned, ret |-> Unique(Column(s.df.rows, "Entity"))]

----------------------------------------------------------------------------
(* plot_area_chart *)

CountryNotStr == Raise("TypeError", "country is not a string, Please pass a string")
NormalizeNotBool == Raise("TypeError", "normalize is not a bool, Please pass a bool")
NotEnoughColumns == Raise("Exception", "Not enough columns with '_output' suffix")
CountryMissing == Raise("TypeError", "Country does not exist")
\* self.df.columns while self.df is still None
NoneAttribute == Raise("AttributeError", "'NoneType' object has no attribute 'columns'")

\* "_output_" in c, over the column names of the model
contains_output(c) == \E i \in DOMAIN OutputColumns : OutputColumns[i] = c

\* [c for c in column_names if "_output_" in c] followed by append("Year")
df_subset(column_names) ==
    Append(SelectSeq(column_names, contains_output), "Year")

\* country: None, a str or something else; normalize: a bool or something else
AreaArg(country, normalize) ==
    [isList |-> FALSE, countries |-> <<>>, isInt |-> FALSE, year |-> 0,
     country |-> country, normalize |-> normalize]
NoCountry == [isNone |-> TRUE, isStr |-> FALSE, v |-> ""]
CountryStr(v) == [isNone |-> FALSE, isStr |-> TRUE, v |-> v]
CountryOther == [isNone |-> FALSE, isStr |-> FALSE, v |-> "7"]
AreaArgs ==
    { AreaArg(c, n) :
        c \in {NoCountry, CountryOther, CountryStr("World"), CountryStr("France"),
               CountryStr("Atlantis")},
        n \in {[isBool |-> TRUE, v |-> TRUE], [isBool |-> TRUE, v |-> FALSE],
               [isBool |-> FALSE, v |-> TRUE]} }

\* columns is self.df.columns once the frame is loaded
plot_area_chart(fs, d, g, content, net, columns, a) ==
    LET same == [files |-> fs, df |-> d, geo |-> g, io |-> NoIo,
                 outcome |-> Returned, stack |-> <<>>, shown |-> FALSE]
        s == ensure_data(fs, d, g, content, net)
        after == [files |-> s.files, df |-> s.df, geo |-> s.geo, io |-> s.io,
                  outcome |-> Returned, stack |-> <<>>, shown |-> FALSE]
        subset == df_subset(columns)
        \* country_plot: stackplot of df_subset[:-1], then plt.show()
        drawn == [after EXCEPT !.stack = SubSeq(subset, 1, Len(subset) - 1),
                               !.shown = TRUE]
    IN IF ~a.country.isNone /\ ~a.country.isStr
       THEN [same EXCEPT !.outcome = CountryNotStr]
       ELSE IF ~a.normalize.isBool
       THEN [same EXCEPT !.outcome = NormalizeNotBool]
       ELSE IF s.df.isNone
       THEN [after EXCEPT !.outcome = NoneAttribute]
       ELSE IF Len(subset) < 2
       THEN [after EXCEPT !.outcome = NotEnoughColumns]
       ELSE IF a.country.isNone \/ a.country.v = "World"
       THEN drawn
       ELSE IF a.country.v \in Range(Unique(Column(s.df.rows, "Entity")))
       THEN drawn
       ELSE [after EXCEPT !.outcome = CountryMissing]

----------------------------------------------------------------------------
(* The state machine *)

\* A new object; the downloads directory may hold the files of an earlier run
Start ==
    /\ files \in {{}, {DownloadsDir, DataCsv}, {DownloadsDir, DataCsv, GeoCsv}}
    /\ df = None
    /\ df_geographical = [isNone |-> TRUE]
    /\ call = Idle
    /\ outcome = Returned
    /\ ret = <<>>
    /\ lines = <<>>
    /\ stack = <<>>
    /\ shown = FALSE
    /\ io = NoIo

Init ==
    /\ remote \in CsvFiles
    /\ header = HeaderWith(MaxOutputCols)
    /\ Start

GetData ==
    /\ call = Idle
    /\ \E net \in BOOLEAN :
        LET r == get_data(files, df, df_geographical, remote, net)
        IN /\ files' = r.files
           /\ df' = r.df
           /\ df_geographical' = r.geo
           /\ io' = r.io
           /\ call' = Call("get_data", NoArgs)
           /\ outcome' = Returned
           /\ ret' = <<>>
           /\ lines' = <<>>
           /\ shown' = FALSE
           /\ stack' = <<>>
           /\ UNCHANGED <<remote, header>>

GetCountries ==
    /\ call = Idle
    /\ \E net \in BOOLEAN :
        LET r == get_countries(files, df, df_geographical, remote, net)
        IN /\ files' = r.files
           /\ df' = r.df
           /\ df_geographical' = r.geo
           /\ io' = r.io
           /\ call' = Call("get_countries", NoArgs)
           /\ outcome' = r.outcome
           /\ ret' = r.ret
           /\ lines' = <<>>
           /\ shown' = FALSE
           /\ stack' = <<>>
           /\ UNCHANGED <<remote, header>>

Choropleth ==
    /\ call = Idle
    /\ \E net \in BOOLEAN, a \in YearArgs :
        LET r == choropleth(files, df, df_geographical, remote, net, a)
        IN /\ files' = r.files
           /\ df' = r.df
           /\ df_geographical' = r.geo
           /\ io' = r.io
           /\ call' = Call("choropleth", a)
           /\ outcome' = r.outcome
           /\ ret' = <<>>
           /\ lines' = <<>>
           /\ shown' = r.shown
           /\ stack' = <<>>
           /\ UNCHANGED <<remote, header>>

Predictor ==
    /\ call = Idle
    /\ \E net \in BOOLEAN, a \in CountriesArgs :
        LET r == predictor(files, df, df_geographical, remote, net, a)
        IN /\ files' = r.files
           /\ df' = r.df
           /\ df_geographical' = r.geo
           /\ io' = r.io
           /\ call' = Call("predictor", a)
           /\ outcome' = r.outcome
           /\ ret' = <<>>
           /\ lines' = r.lines
           /\ shown' = r.shown
           /\ stack' = <<>>
           /\ UNCHANGED <<remote, header>>

PlotAreaChart ==
    /\ call = Idle
    /\ \E net \in BOOLEAN, a \in AreaArgs :
        LET r == plot_area_chart(files, df, df_geographical, remote, net, header, a)
        IN /\ files' = r.files
           /\ df' = r.df
           /\ df_geographical' = r.geo
           /\ io' = r.io
           /\ call' = Call("plot_area_chart", a)
           /\ outcome' = r.outcome
           /\ ret' = <<>>
           /\ lines' = <<>>
           /\ stack' = r.stack
           /\ shown' = r.shown
           /\ UNCHANGED <<remote, header>>

\* The calls of a session are made one after another (single-threaded use):
\* the caller takes the result of a call, the figure is closed, and the object
\* is ready for the next call.  Nothing of the object or the disk changes.
Finish ==
    /\ call # Idle
    /\ call' = Idle
    /\ outcome' = Returned
    /\ ret' = <<>>
    /\ lines' = <<>>
    /\ shown' = FALSE
    /\ io' = NoIo
    /\ stack' = <<>>
    /\ UNCHANGED <<remote, header, files, df, df_geographical>>

Next == GetData \/ GetCountries \/ Choropleth \/ Predictor \/ Finish

Spec == Init /\ [][Next]_vars

\* The charting session: the served file has any of the headers, and the area
\* chart is drawn among the other calls
InitArea ==
    /\ remote \in CsvFiles
    /\ header \in Headers
    /\ Start

NextArea == GetData \/ GetCountries \/ PlotAreaChart \/ Choropleth \/ Finish

SpecArea == InitArea /\ [][NextArea]_vars

----------------------------------------------------------------------------
(* Vocabulary of the properties *)

PredictorOnList == call.op = "predictor" /\ call.arg.isList
Requested == call.arg.countries
\* the dataset is loaded when the call ends
Loaded == ~df.isNone
EntityNames == {df.rows[i].Entity : i \in DOMAIN df.rows}
KnownAt(i) == Requested[i].isStr /\ Requested[i].v \in EntityNames
KnownIdx == {i \in DOMAIN Requested : KnownAt(i)}
\* the k-th known position of the requested list
KthKnown(k) == CHOOSE i \in KnownIdx : Cardinality({j \in KnownIdx : j <= i}) = k
ForecastIdx == {i \in DOMAIN lines : lines[i].linestyle = "--"}
Observations(name) == Cardinality({i \in DOMAIN df.rows : df.rows[i].Entity = name})

----------------------------------------------------------------------------
(* C1: a list of more than 3 names always fails with "Maximum of three
   countries can be provided.", however many of the names are known (zero
   included), and nothing is fitted or plotted. *)
C1_TooManyWhateverKnown ==
    (PredictorOnList /\ Loaded /\ Len(Requested) > MaxCountries)
        => /\ outcome.exc = "ValueError"
           /\ outcome.msg = "Maximum of three countries can be provided."
           /\ lines = <<>>

(* C2: every forecast has exactly 31 periods, consecutive and increasing, the
   first one being the year after the last historical year, and as many
   periods as values. *)
C2_ForecastPeriods ==
    (PredictorOnList /\ outcome = Returned)
        => \A i \in ForecastIdx :
              LET hist == lines[i - 1].x
                  fx == lines[i].x
              IN /\ Len(fx) = 31
                 /\ Len(fx) = Len(lines[i].y)
                 /\ \A k \in 1..(Len(fx) - 1) : fx[k + 1] = fx[k] + 1
                 /\ fx[1] = hist[Len(hist)] + 1

(* C3: a list of at most 3 names with at least one known and at least one
   unknown name succeeds, with one forecast per known name, none for the
   others, in the order of the list. *)
C3_MixedListForecastsKnownInOrder ==
    (PredictorOnList /\ Loaded /\ Len(Requested) <= 3
       /\ KnownIdx # {} /\ KnownIdx # DOMAIN Requested)
        => /\ outcome = Returned
           /\ Cardinality(ForecastIdx) = Cardinality(KnownIdx)
           /\ Len(lines) = 2 * Cardinality(KnownIdx)
           /\ \A k \in 1..Cardinality(KnownIdx) :
                 /\ lines[2 * k].linestyle = "--"
                 /\ lines[2 * k].label.forecast
                 /\ lines[2 * k].label.country = Requested[KthKnown(k)].v

C3_Witness ==
    /\ PredictorOnList /\ outcome = Returned
    /\ Len(Requested) = 3 /\ Cardinality(KnownIdx) = 2
    /\ Requested[1].v = "United States" /\ Requested[3].v = "France"
    /\ Len(lines) = 4

(* C4: a list with no known name (the empty list included) fails with "No
   valid countries provided", the message lists every country of the dataset,
   and nothing is fitted or plotted. *)
C4_NoKnownNameFails ==
    (PredictorOnList /\ Loaded /\ KnownIdx = {})
        => /\ outcome.exc = "ValueError"
           /\ outcome.msg = "No valid countries provided."
           /\ outcome.listed = EntityNames
           /\ lines = <<>>
           /\ ~shown

C4_Witness ==
    /\ PredictorOnList /\ Loaded /\ KnownIdx = {}
    /\ Len(Requested) = 2
    /\ outcome.listed = {"France", "North Macedonia", "United States"}

C6_PredictorKeepsTable ==
    [][(call = Idle /\ call'.op = "predictor" /\ ~df.isNone) => df' = df]_vars

C6_Witness ==
    /\ PredictorOnList /\ outcome = Returned
    /\ ~io.called
    /\ "United States" \in EntityNames /\ Len(lines) = 6

(* C7: predictor is stateless across calls: whatever ran before on the object,
   it accepts and rejects the same names and ends the same way as on a
   freshly loaded object. *)
C7_SameAsFreshObject ==
    (PredictorOnList /\ Loaded)
        => LET fresh == predict(read_csv(remote), Requested)
           IN outcome = fresh.outcome /\ lines = fresh.lines

(* C8: a country with at most p + d = 22 observations makes predictor fail
   with an InsufficientData error; no forecast is produced for it. *)
C8_ShortSeriesInsufficientData ==
    (PredictorOnList /\ Loaded /\ Len(Requested) <= 3
       /\ \E i \in KnownIdx : Observations(Requested[i].v) <= ARIMA_p + ARIMA_d)
        => /\ outcome.exc = "InsufficientData"
           /\ \A i \in ForecastIdx :
                 Observations(lines[i].label.country) > ARIMA_p + ARIMA_d

(* C9: get_data downloads the CSV only when downloads/data.csv does not
   exist, reads the dataframe only when self.df is None, and leaves a
   self.df that is set as it is. *)
C9_GetDataCaches ==
    [][(call = Idle /\ call'.op = "get_data")
         => /\ (io'.downloaded \/ DataCsv \in files' \ files) => DataCsv \notin files
            /\ (io'.read \/ df' # df) => df.isNone
            /\ ~df.isNone => df' = df]_vars

C9_Witness ==
    /\ call.op = "get_data" /\ Loaded
    /\ ~io.read /\ ~io.downloaded
    /\ "United States of America" \in EntityNames

(* C10: get_data raises an exception when the download fails; no
   downloads/data.csv is written and self.df stays None. *)
C10_DownloadErrorRaises ==
    (call.op = "get_data" /\ io.failed)
        => /\ outcome.exc # "None"
           /\ DataCsv \notin files
           /\ df.isNone

(* C12: predictor raises ValueError when it is called while the data has not
   been loaded (self.df is None), also when the load it attempts fails on
   the download. *)
C12_NotLoadedRaisesValueError ==
    (PredictorOnList /\ io.called) => outcome.exc = "ValueError"

(* C13: for every surviving country the dashed forecast line has the colour
   of that country's own historical line and carries that country's name;
   it shares neither with the line of another position of the list. *)
C13_ForecastPairedWithOwnHistory ==
    (PredictorOnList /\ outcome = Returned)
        => /\ Len(lines) = 2 * Cardinality(KnownIdx)
           /\ \A k \in 1..Cardinality(KnownIdx) :
                 LET h == lines[2 * k - 1]
                     f == lines[2 * k]
                 IN /\ h.linestyle = "-" /\ f.linestyle = "--"
                    /\ ~h.label.forecast /\ f.label.forecast
                    /\ h.label.country = Requested[KthKnown(k)].v
                    /\ f.label.country = h.label.country
                    /\ f.color = h.color
                    /\ \A j \in 1..Cardinality(KnownIdx) :
                          j # k => lines[2 * j - 1].color # f.color

C13_Witness ==
    /\ PredictorOnList /\ outcome = Returned
    /\ Len(Requested) = 3 /\ Cardinality(KnownIdx) = 3
    /\ Requested[1] = Requested[2] /\ Requested[3] # Requested[1]
    /\ lines[4].color = lines[3].color /\ lines[4].color # lines[1].color

(* C14: the renaming done by choropleth is idempotent: once a choropleth call
   has succeeded, one more such call leaves every Entity name of self.df, and
   so get_countries, as it is. *)
C14_RenameIdempotent ==
    (call.op = "choropleth" /\ outcome = Returned)
        => /\ replace(df) = df
           /\ Unique(Column(replace(df).rows, "Entity"))
                = Unique(Column(df.rows, "Entity"))

(* C11: plot_area_chart raises an exception, before anything is plotted,
   whenever the dataset has one or fewer columns whose name contains
   "_output_": with none and with exactly one. *)
C11_OneOrFewerOutputColumnsRaises ==
    (call.op = "plot_area_chart" /\ Loaded
       /\ Cardinality({i \in DOMAIN header : contains_output(header[i])}) <= 1)
        => /\ outcome.exc # "None"
           /\ stack = <<>>
           /\ ~shown

====
